---- MODULE Spec2Model ----
(***************************************************************************)
(* The Windows-NT layer of the introspection engine (fdp_exec/nt/os_nt.cpp) *)
(* as a state machine: bootstrap (os::make_nt / OsNt::setup), then the      *)
(* OS-facing queries run against the resolved offset table and the guest's  *)
(* memory.  Every backend call (register read, memory read, symbol lookup)  *)
(* either fails or answers from the guest's state; which of the two is      *)
(* chosen when the call is made.                                            *)
(***************************************************************************)
EXTENDS Integers, Sequences, FiniteSets, TLC

(***************************************************************************)
(* Machine words.  Addresses are uint64_t in the source; the model keeps    *)
(* the modular arithmetic with a narrower word of WordBits bits.  The test  *)
(* "any of the top 12 bits set" (0xFFF0000000000000) keeps its 12 bits.     *)
(***************************************************************************)
WordBits == 24
Word == 2 ^ WordBits
TopBits == 12
PAGE_SIZE == 4096

Add(a, b) == (a + b) % Word
Sub(a, b) == (a - b) % Word
\* *gs & 0xFFF0000000000000
TopBitsSet(v) == (v \div (2 ^ (WordBits - TopBits))) # 0
\* utils::align<PAGE_SIZE>: round down to the enclosing page
align(v) == v - (v % PAGE_SIZE)

\* one backend call: which call, on which register or address, and whether it
\* succeeded
Call(c, r, a, k) == [call |-> c, reg |-> r, at |-> a, ok |-> k]

\* a memory read of n bytes
ReadCall(a, n, k) == [call |-> "read", reg |-> "", at |-> a, ok |-> k, n |-> n]

\* F(v), with v evaluated once
With(v, F(_)) == CHOOSE r \in {F(x) : x \in {v}} : TRUE

\* opt<T>
None == [some |-> FALSE, v |-> 0]
Some(x) == [some |-> TRUE, v |-> x]

\* proc_t, and the record of an OS-facing call: the operation, its arguments
\* and what the backend was going to answer during it (env)
NoProc == [id |-> 0, dtb |-> 0]
NoCall == [op |-> "none", name |-> <<>>, proc |-> NoProc, env |-> <<>>]
\* mod_t, and the record of a get_mod_name / get_mod_span call
NoInner == [op |-> "none", mod |-> 0, ret |-> None]
NoLm == [peb |-> 0, head |-> 0]
NoScan == [n |-> 0, first |-> 0, last |-> 0, fails |-> 0, order |-> TRUE]

(***************************************************************************)
(* The two catalogs: member_offset_e / g_member_offsets and                 *)
(* symbol_offset_e / g_symbol_offsets.                                      *)
(***************************************************************************)
EPROCESS_ActiveProcessLinks == 0
EPROCESS_ImageFileName == 1
EPROCESS_Pcb == 2
EPROCESS_Peb == 3
EPROCESS_SeAuditProcessCreationInfo == 4
EPROCESS_VadRoot == 5
KPCR_Prcb == 6
KPRCB_CurrentThread == 7
KPROCESS_DirectoryTableBase == 8
KTHREAD_Process == 9
LDR_DATA_TABLE_ENTRY_DllBase == 10
LDR_DATA_TABLE_ENTRY_FullDllName == 11
LDR_DATA_TABLE_ENTRY_InLoadOrderLinks == 12
LDR_DATA_TABLE_ENTRY_SizeOfImage == 13
OBJECT_NAME_INFORMATION_Name == 14
PEB_Ldr == 15
PEB_LDR_DATA_InLoadOrderModuleList == 16
PEB_ProcessParameters == 17
RTL_USER_PROCESS_PARAMETERS_ImagePathName == 18
SE_AUDIT_PROCESS_CREATION_INFO_ImageFileName == 19
MEMBER_OFFSET_COUNT == 20

KiSystemCall64 == 0
PsActiveProcessHead == 1
PsInitialSystemProcess == 2
SYMBOL_OFFSET_COUNT == 3

\* g_symbol_offsets[i].name and g_member_offsets[i].struc/.member, in table order
g_symbol_offsets ==
    [i \in 0..(SYMBOL_OFFSET_COUNT - 1) |->
        CASE i = 0 -> "nt!KiSystemCall64"
          [] i = 1 -> "nt!PsActiveProcessHead"
          [] i = 2 -> "nt!PsInitialSystemProcess"]

g_member_offsets ==
    [i \in 0..(MEMBER_OFFSET_COUNT - 1) |->
        CASE i = 0 -> "nt!_EPROCESS.ActiveProcessLinks"
          [] i = 1 -> "nt!_EPROCESS.ImageFileName"
          [] i = 2 -> "nt!_EPROCESS.Pcb"
          [] i = 3 -> "nt!_EPROCESS.Peb"
          [] i = 4 -> "nt!_EPROCESS.SeAuditProcessCreationInfo"
          [] i = 5 -> "nt!_EPROCESS.VadRoot"
          [] i = 6 -> "nt!_KPCR.Prcb"
          [] i = 7 -> "nt!_KPRCB.CurrentThread"
          [] i = 8 -> "nt!_KPROCESS.DirectoryTableBase"
          [] i = 9 -> "nt!_KTHREAD.Process"
          [] i = 10 -> "nt!_LDR_DATA_TABLE_ENTRY.DllBase"
          [] i = 11 -> "nt!_LDR_DATA_TABLE_ENTRY.FullDllName"
          [] i = 12 -> "nt!_LDR_DATA_TABLE_ENTRY.InLoadOrderLinks"
          [] i = 13 -> "nt!_LDR_DATA_TABLE_ENTRY.SizeOfImage"
          [] i = 14 -> "nt!_OBJECT_NAME_INFORMATION.Name"
          [] i = 15 -> "nt!_PEB.Ldr"
          [] i = 16 -> "nt!_PEB_LDR_DATA.InLoadOrderModuleList"
          [] i = 17 -> "nt!_PEB.ProcessParameters"
          [] i = 18 -> "nt!_RTL_USER_PROCESS_PARAMETERS.ImagePathName"
          [] i = 19 -> "nt!_SE_AUDIT_PROCESS_CREATION_INFO.ImageFileName"]

\* an entry of members_ / symbols_ that setup has not written
Unset == -1

(***************************************************************************)
(* The guest.  Its kernel's structure layout (what the debug information   *)
(* answers for each member), the addresses of its kernel symbols, and the   *)
(* values the LSTAR register can hold.  Every offset is nonzero and no two  *)
(* are equal, so each term of the address arithmetic is observable.         *)
(***************************************************************************)
GuestOffset ==
    [i \in 0..(MEMBER_OFFSET_COUNT - 1) |->
        CASE i = 0 -> 392   [] i = 1 -> 736   [] i = 2 -> 16    [] i = 3 -> 824
          [] i = 4 -> 912   [] i = 5 -> 1096  [] i = 6 -> 384   [] i = 7 -> 8
          [] i = 8 -> 40    [] i = 9 -> 528   [] i = 10 -> 48   [] i = 11 -> 72
          [] i = 12 -> 32   [] i = 13 -> 64   [] i = 14 -> 24   [] i = 15 -> 56
          [] i = 16 -> 80   [] i = 17 -> 96   [] i = 18 -> 104  [] i = 19 -> 120]

LstarUnaligned == 2 * PAGE_SIZE + 512
LstarAligned == 3 * PAGE_SIZE
LstarVals == {LstarUnaligned, LstarAligned}

GuestSymbol ==
    [i \in 0..(SYMBOL_OFFSET_COUNT - 1) |->
        CASE i = 0 -> LstarUnaligned
          [] i = 1 -> 2 * PAGE_SIZE + 2048
          [] i = 2 -> 2 * PAGE_SIZE + 2056]

\* what core_.sym.symbol can answer for catalog entry i: nothing, the guest's
\* address, or (debug information of another build) an address 256 bytes off
SymbolAnswers(i) ==
    {None, Some(GuestSymbol[i])}
        \cup (IF i = KiSystemCall64 THEN {Some(Add(GuestSymbol[i], 256))} ELSE {})
\* what core_.sym.struc_offset can answer for catalog entry i
MemberAnswers(i) == {None, Some(GuestOffset[i])}

\* kernel pages as the locator sees them: unmapped, mapped without an image
\* header, or mapped with a header declaring `size` bytes
KernelPages == 0..(LstarAligned \div PAGE_SIZE)
PageKinds == {[t |-> "unmapped", size |-> 0], [t |-> "data", size |-> 0],
              [t |-> "pe", size |-> 2 * PAGE_SIZE]}
KernelMems == [KernelPages -> PageKinds]

\* how many catalog entries may fail to resolve in one bootstrap
MaxMissing == 2

VARIABLES
    pc,         \* position of the program
    nt,         \* what os::make_nt returned: "none" (not returned yet), "null", "handler"
    setupRet,   \* what OsNt::setup returned (None before it returns)
    lstar,      \* setup: const auto lstar
    kernel,     \* setup: const auto kernel
    trace,      \* the backend calls the operation in progress has made itself, in order
    i,          \* setup: loop index
    fail,       \* setup: bool fail
    symbols_,   \* OsNt::symbols_
    members_,   \* OsNt::members_
    log,        \* diagnostics emitted by the operation in progress (LOG / FAIL)
    procs,      \* guest: the processes on the active process list, in list order
    call,       \* the OS-facing operation in progress, or the last one finished
    link,       \* list_procs: auto link
    visited,    \* list_procs: the handles passed to on_process, in order
    answers,    \* list_procs: what on_process answered for each handle visited
    gots,       \* get_proc: what get_proc_name answered for each handle visited
    found,      \* get_proc: opt<proc_t> found
    ub,         \* the operation has dereferenced an empty optional
    ret,        \* Some(value returned) once the operation has returned
    ptr,        \* find_kernel: auto ptr
    kmem,       \* guest: the pages find_kernel can reach, page number -> kind
    scan,       \* find_kernel: its page reads so far (how many, first, last, failed)
    ctx,        \* backend: the address-space switches in effect, innermost last
    inner,      \* the get_mod_name / get_mod_span call in progress
    lm          \* list_mods: const auto peb, const auto head

vars == <<pc, nt, setupRet, lstar, kernel, trace, i, fail, symbols_, members_, log,
          procs, call, link, visited, answers, gots, found, ub, ret,
          ptr, kmem, scan, ctx, inner, lm>>

\* the variables only the queries write, and those only bootstrap writes
qvars == <<procs, call, link, visited, answers, gots, found, ub, ret>>
bootvars == <<nt, setupRet, lstar, kernel, i, fail, symbols_, members_>>
\* the locals of find_kernel, and the state of the module queries
kvars == <<ptr, kmem, scan>>
mvars == <<ctx, inner, lm>>

(***************************************************************************)
(* find_kernel: backward page scan from the page enclosing lstar.           *)
(***************************************************************************)
RECURSIVE find_kernel_from(_, _, _)
find_kernel_from(km, at, lstar_) ==
    IF ~(at < lstar_) THEN None
    ELSE LET page == km[at \div PAGE_SIZE] IN
         IF page.t = "unmapped" THEN None
         ELSE IF page.t = "pe" THEN Some([addr |-> at, size |-> page.size])
         ELSE find_kernel_from(km, Sub(at, PAGE_SIZE), lstar_)

find_kernel(km, lstar_) == find_kernel_from(km, align(lstar_), lstar_)

(***************************************************************************)
(* os::make_nt and OsNt::setup.                                             *)
(***************************************************************************)
Init ==
    /\ pc = "make_nt"
    /\ nt = "none"
    /\ setupRet = None
    /\ lstar = None
    /\ kernel = None
    /\ trace = <<>>
    /\ i = 0
    /\ fail = FALSE
    /\ symbols_ = [s \in 0..(SYMBOL_OFFSET_COUNT - 1) |-> Unset]
    /\ members_ = [m \in 0..(MEMBER_OFFSET_COUNT - 1) |-> Unset]
    /\ log = <<>>
    /\ procs = <<>>
    /\ call = NoCall
    /\ link = None
    /\ visited = <<>>
    /\ answers = <<>>
    /\ gots = <<>>
    /\ found = None
    /\ ub = FALSE
    /\ ret = None
    /\ ptr = 0
    /\ kmem = <<>>
    /\ scan = NoScan
    /\ ctx = <<>>
    /\ inner = NoInner
    /\ lm = NoLm

\* setup returns `r`, after an optional diagnostic
SetupReturn(r, msgs) ==
    /\ setupRet' = Some(r)
    /\ log' = log \o msgs
    /\ pc' = "setup_ret"

\* const auto lstar = core_.regs.read(MSR_LSTAR); if(!lstar) return false;
ReadLstarFrom(vals) ==
    /\ pc = "make_nt"
    /\ \E r \in {None} \cup {Some(v) : v \in vals} :
         /\ lstar' = r
         /\ IF r.some
            THEN /\ pc' = "find_kernel"
                 /\ trace' = Append(trace, Call("regs.read", "MSR_LSTAR", 0, TRUE))
                 /\ UNCHANGED <<setupRet, log>>
            ELSE /\ SetupReturn(FALSE, <<>>)
                 /\ trace' = Append(trace, Call("regs.read", "MSR_LSTAR", 0, FALSE))
    /\ UNCHANGED <<nt, kernel, i, fail, symbols_, members_>>
    /\ UNCHANGED qvars
    /\ UNCHANGED <<kvars, mvars>>

SetupReadLstar == ReadLstarFrom(LstarVals)

(***************************************************************************)
(* find_kernel, one page read at a time.                                    *)
(***************************************************************************)
\* an entry address in the last page of the address space
LstarTop == Word - PAGE_SIZE + 512
ScanLstarVals == LstarVals \cup {LstarTop}
SetupReadLstarAny == ReadLstarFrom(ScanLstarVals)

\* the memories the scan may meet: below a low entry address every kind of
\* page, below a high one readable pages without a header down to page 0
TopMems == {km \in KernelMems : \A p \in KernelPages \ {0} : km[p].t = "data"}
MemsFor(lstar_) == IF lstar_ = LstarTop THEN TopMems ELSE KernelMems
PageAt(km, p) == IF p \in DOMAIN km THEN km[p] ELSE [t |-> "data", size |-> 0]

\* the scan never needs more reads than there are pages; one more shows a
\* scan that goes round
ScanCap == Word \div PAGE_SIZE + 1

\* a loop that also takes the page at the entry address
InScan_Inclusive(at, lstar_) == at <= lstar_

\* the loop's condition: ptr < lstar
InScan(at, lstar_) == at < lstar_

\* a scan that goes past a page it cannot read
scan_step_SkipsUnreadable(page, at) ==
    IF page.t # "pe" THEN [done |-> FALSE, ret |-> None, ptr |-> Sub(at, PAGE_SIZE)]
    ELSE [done |-> TRUE, ret |-> Some([addr |-> at, size |-> page.size]), ptr |-> at]

\* the loop's body: what it returns, or the page it goes on with
scan_step(page, at) ==
    IF page.t = "unmapped" THEN [done |-> TRUE, ret |-> None, ptr |-> at]
    ELSE IF page.t # "pe" THEN [done |-> FALSE, ret |-> None, ptr |-> Sub(at, PAGE_SIZE)]
    ELSE [done |-> TRUE, ret |-> Some([addr |-> at, size |-> page.size]), ptr |-> at]

\* auto ptr = utils::align<PAGE_SIZE>(lstar)
KernelScanBegin ==
    /\ pc = "find_kernel"
    /\ \E km \in MemsFor(lstar.v) : kmem' = km
    /\ ptr' = align(lstar.v)
    /\ scan' = NoScan
    /\ pc' = "scan"
    /\ UNCHANGED <<trace, log, bootvars>>
    /\ UNCHANGED qvars
    /\ UNCHANGED mvars

\* one turn of the loop
KernelScanStep ==
    /\ pc = "scan"
    /\ InScan(ptr, lstar.v)
    /\ scan.n < ScanCap
    /\ \E page \in {PageAt(kmem, ptr \div PAGE_SIZE)} :
       \E r \in {scan_step(page, ptr)} :
         /\ scan' = [n |-> scan.n + 1,
                     first |-> IF scan.n = 0 THEN ptr ELSE scan.first,
                     last |-> ptr,
                     fails |-> scan.fails + (IF page.t = "unmapped" THEN 1 ELSE 0),
                     order |-> scan.order /\ (scan.n = 0 \/ ptr < scan.last)]
         /\ ptr' = r.ptr
         /\ IF r.done THEN kernel' = r.ret /\ pc' = "scan_ret"
                      ELSE UNCHANGED <<kernel, pc>>
    /\ UNCHANGED <<kmem, trace, log, nt, setupRet, lstar, i, fail, symbols_, members_>>
    /\ UNCHANGED qvars
    /\ UNCHANGED mvars

\* the loop ends by its condition: return std::nullopt
KernelScanEnd ==
    /\ pc = "scan"
    /\ ~InScan(ptr, lstar.v)
    /\ kernel' = None
    /\ pc' = "scan_ret"
    /\ UNCHANGED <<kvars, trace, log, nt, setupRet, lstar, i, fail, symbols_, members_>>
    /\ UNCHANGED qvars
    /\ UNCHANGED mvars

\* back in setup: if(!kernel) FAIL(false, "unable to find kernel")
SetupAfterScan ==
    /\ pc = "scan_ret"
    /\ IF kernel.some
       THEN /\ pc' = "read_kernel"
            /\ trace' = Append(trace, Call("find_kernel", "", lstar.v, TRUE))
            /\ UNCHANGED <<setupRet, log>>
       ELSE /\ SetupReturn(FALSE, <<"unable to find kernel">>)
            /\ trace' = Append(trace, Call("find_kernel", "", lstar.v, FALSE))
    /\ ptr' = 0
    /\ kmem' = <<>>
    /\ UNCHANGED <<scan, kernel, nt, lstar, i, fail, symbols_, members_>>
    /\ UNCHANGED qvars
    /\ UNCHANGED mvars

\* const auto kernel = find_kernel(core_, *lstar); if(!kernel) FAIL(...)
SetupFindKernel ==
    /\ pc = "find_kernel"
    /\ \E km \in KernelMems :
         /\ kernel' = find_kernel(km, lstar.v)
         /\ IF kernel'.some
            THEN /\ pc' = "read_kernel"
                 /\ trace' = Append(trace, Call("find_kernel", "", lstar.v, TRUE))
                 /\ UNCHANGED <<setupRet, log>>
            ELSE /\ SetupReturn(FALSE, <<"unable to find kernel">>)
                 /\ trace' = Append(trace, Call("find_kernel", "", lstar.v, FALSE))
    /\ UNCHANGED <<nt, lstar, i, fail, symbols_, members_>>
    /\ UNCHANGED qvars
    /\ UNCHANGED <<kvars, mvars>>

\* auto ok = core_.read(&buffer[0], kernel->addr, kernel->size); if(!ok) FAIL(...)
SetupReadKernel ==
    /\ pc = "read_kernel"
    /\ \E ok \in BOOLEAN :
         IF ok
         THEN /\ pc' = "insert"
              /\ trace' = Append(trace, Call("read", "", kernel.v.addr, TRUE))
              /\ UNCHANGED <<setupRet, log>>
         ELSE /\ SetupReturn(FALSE, <<"unable to read kernel module">>)
              /\ trace' = Append(trace, Call("read", "", kernel.v.addr, FALSE))
    /\ UNCHANGED <<nt, lstar, kernel, i, fail, symbols_, members_>>
    /\ UNCHANGED qvars
    /\ UNCHANGED <<kvars, mvars>>

\* ok = core_.sym.insert("nt", *kernel, &buffer[0]); if(!ok) FAIL(...)
SetupInsert ==
    /\ pc = "insert"
    /\ \E ok \in BOOLEAN :
         IF ok
         THEN /\ pc' = "symbols"
              /\ trace' = Append(trace, Call("sym.insert", "", kernel.v.addr, TRUE))
              /\ fail' = FALSE
              /\ i' = 0
              /\ UNCHANGED <<setupRet, log>>
         ELSE /\ SetupReturn(FALSE, <<"unable to load symbols from kernel module">>)
              /\ trace' = Append(trace, Call("sym.insert", "", kernel.v.addr, FALSE))
              /\ UNCHANGED <<fail, i>>
    /\ UNCHANGED <<nt, lstar, kernel, symbols_, members_>>
    /\ UNCHANGED qvars
    /\ UNCHANGED <<kvars, mvars>>

\* the first loop leaving at the first symbol it cannot resolve
SetupSymbol_StopsAtFirstFailure ==
    /\ pc = "symbols"
    /\ i < SYMBOL_OFFSET_COUNT
    /\ \E addr \in SymbolAnswers(i) :
         /\ (~addr.some) => Len(log) < MaxMissing
         /\ IF ~addr.some
            THEN /\ fail' = TRUE
                 /\ SetupReturn(FALSE, <<"unable to read " \o g_symbol_offsets[i]
                                           \o " symbol offset">>)
                 /\ UNCHANGED symbols_
            ELSE /\ symbols_' = [symbols_ EXCEPT ![i] = addr.v]
                 /\ UNCHANGED <<fail, log, pc, setupRet>>
         /\ trace' = Append(trace, Call("sym.symbol", g_symbol_offsets[i], 0, addr.some))
    /\ i' = i + 1
    /\ UNCHANGED <<nt, lstar, kernel, members_>>
    /\ UNCHANGED qvars
    /\ UNCHANGED <<kvars, mvars>>

\* one iteration of for(i < SYMBOL_OFFSET_COUNT)
SetupSymbol ==
    /\ pc = "symbols"
    /\ i < SYMBOL_OFFSET_COUNT
    /\ \E addr \in SymbolAnswers(i) :
         /\ (~addr.some) => Len(log) < MaxMissing
         /\ IF ~addr.some
            THEN /\ fail' = TRUE
                 /\ log' = Append(log, "unable to read " \o g_symbol_offsets[i] \o " symbol offset")
                 /\ UNCHANGED symbols_
            ELSE /\ symbols_' = [symbols_ EXCEPT ![i] = addr.v]
                 /\ UNCHANGED <<fail, log>>
         /\ trace' = Append(trace, Call("sym.symbol", g_symbol_offsets[i], 0, addr.some))
    /\ i' = i + 1
    /\ UNCHANGED <<pc, nt, setupRet, lstar, kernel, members_>>
    /\ UNCHANGED qvars
    /\ UNCHANGED <<kvars, mvars>>

\* the first loop ends, the second starts
SetupSymbolsEnd ==
    /\ pc = "symbols"
    /\ ~(i < SYMBOL_OFFSET_COUNT)
    /\ pc' = "members"
    /\ i' = 0
    /\ UNCHANGED <<nt, setupRet, lstar, kernel, trace, fail, symbols_, members_, log>>
    /\ UNCHANGED qvars
    /\ UNCHANGED <<kvars, mvars>>

\* one iteration of for(i < MEMBER_OFFSET_COUNT)
SetupMember ==
    /\ pc = "members"
    /\ i < MEMBER_OFFSET_COUNT
    /\ \E offset \in MemberAnswers(i) :
         /\ (~offset.some) => Len(log) < MaxMissing
         /\ IF ~offset.some
            THEN /\ fail' = TRUE
                 /\ log' = Append(log, "unable to read " \o g_member_offsets[i] \o " member offset")
                 /\ UNCHANGED members_
            ELSE /\ members_' = [members_ EXCEPT ![i] = offset.v]
                 /\ UNCHANGED <<fail, log>>
         /\ trace' = Append(trace, Call("sym.struc_offset", g_member_offsets[i], 0, offset.some))
    /\ i' = i + 1
    /\ UNCHANGED <<pc, nt, setupRet, lstar, kernel, symbols_>>
    /\ UNCHANGED qvars
    /\ UNCHANGED <<kvars, mvars>>

\* the end of setup without if(fail) return false
SetupCheck_NoFailTest ==
    /\ pc = "members"
    /\ ~(i < MEMBER_OFFSET_COUNT)
    /\ IF lstar.v # symbols_[KiSystemCall64]
       THEN SetupReturn(FALSE, <<"PDB mismatch">>)
       ELSE SetupReturn(TRUE, <<>>)
    /\ UNCHANGED <<nt, lstar, kernel, trace, i, fail, symbols_, members_>>
    /\ UNCHANGED qvars
    /\ UNCHANGED <<kvars, mvars>>

\* the end of setup without the comparison of LSTAR with KiSystemCall64
SetupCheck_NoMismatchTest ==
    /\ pc = "members"
    /\ ~(i < MEMBER_OFFSET_COUNT)
    /\ IF fail
       THEN SetupReturn(FALSE, <<>>)
       ELSE SetupReturn(TRUE, <<>>)
    /\ UNCHANGED <<nt, lstar, kernel, trace, i, fail, symbols_, members_>>
    /\ UNCHANGED qvars
    /\ UNCHANGED <<kvars, mvars>>

\* if(fail) return false; if(*lstar != KiSystemCall64) FAIL(...); return true;
SetupCheck ==
    /\ pc = "members"
    /\ ~(i < MEMBER_OFFSET_COUNT)
    /\ IF fail
       THEN SetupReturn(FALSE, <<>>)
       ELSE IF lstar.v # symbols_[KiSystemCall64]
       THEN SetupReturn(FALSE, <<"PDB mismatch">>)
       ELSE SetupReturn(TRUE, <<>>)
    /\ UNCHANGED <<nt, lstar, kernel, trace, i, fail, symbols_, members_>>
    /\ UNCHANGED qvars
    /\ UNCHANGED <<kvars, mvars>>

\* make_nt: const auto ok = nt->setup(); if(!ok) return nullptr; return nt;
\* (setup's locals end with it)
MakeNtReturn ==
    /\ pc = "setup_ret"
    /\ IF setupRet.v THEN nt' = "handler" /\ pc' = "returned"
                     ELSE nt' = "null" /\ pc' = "no_handler"
    /\ lstar' = None
    /\ kernel' = None
    /\ i' = 0
    /\ fail' = FALSE
    /\ UNCHANGED <<setupRet, trace, symbols_, members_, log>>
    /\ UNCHANGED qvars
    /\ UNCHANGED <<kvars, mvars>>

(***************************************************************************)
(* Text.  A string is a sequence of character codes (0 is NUL); a wide      *)
(* string is a sequence of 16-bit code units, stored little-endian.         *)
(***************************************************************************)
\* the 14 name bytes that are used of EPROCESS.ImageFileName
NameCap == 14

Smss == <<115, 109, 115, 115>>
SMSS == <<83, 77, 83, 83>>
\* "ABCDEFGHIJKLMN" (exactly NameCap characters) and "ABCDEFGHIJKLMNOP"
Long14 == [k \in 1..NameCap |-> 64 + k]
Long16 == [k \in 1..(NameCap + 2) |-> 64 + k]
\* a code unit that is no character by itself (an unpaired surrogate)
LoneSurrogate == 216 * 256

\* name, NUL-padded to the NameCap + 1 bytes get_proc_name reads
Pad(name) == [k \in 1..(NameCap + 1) |-> IF k <= Len(name) THEN name[k] ELSE 0]
\* \d\<name>
Path(name) == <<92, 100, 92>> \o name

le16(x) == <<x % 256, (x \div 256) % 256>>
le64(x) == <<x % 256, (x \div 256) % 256, (x \div 65536) % 256, (x \div 16777216) % 256,
             0, 0, 0, 0>>
read_le16(b) == b[1] + 256 * b[2]
RECURSIVE read_le(_, _)
read_le(b, n) == IF n = 0 THEN 0 ELSE b[1] + 256 * read_le(Tail(b), n - 1)
read_le64(b) == read_le(b, 8) % Word

RECURSIVE Utf16Bytes(_)
Utf16Bytes(units) ==
    IF units = <<>> THEN <<>> ELSE le16(Head(units)) \o Utf16Bytes(Tail(units))

\* std::string{buffer}: the characters before the first NUL
RECURSIVE CStr(_)
CStr(b) == IF b = <<>> \/ Head(b) = 0 THEN <<>> ELSE <<Head(b)>> \o CStr(Tail(b))

\* utf8::convert(begin, end): the code units of the byte range as characters,
\* absent when a unit is an unpaired surrogate
RECURSIVE Units(_)
Units(b) == IF Len(b) < 2 THEN <<>> ELSE <<read_le16(b)>> \o Units(SubSeq(b, 3, Len(b)))
convert(b) ==
    LET u == Units(b)
    IN IF \E k \in 1..Len(u) : u[k] >= 55296 /\ u[k] <= 57343 THEN None ELSE Some(u)

\* fs::path(p).filename().generic_string(): the text after the last separator;
\* "." when the path ends with a separator, "/" when it is only separators
Separators == {47, 92}
filename(p) ==
    IF p = <<>> THEN <<>>
    ELSE IF \A k \in 1..Len(p) : p[k] \in Separators THEN <<47>>
    ELSE IF p[Len(p)] \in Separators THEN <<46>>
    ELSE LET seps == {k \in 1..Len(p) : p[k] \in Separators}
             last == IF seps = {} THEN 0 ELSE CHOOSE k \in seps : \A m \in seps : m <= k
         IN SubSeq(p, last + 1, Len(p))

(***************************************************************************)
(* Guest memory.  Process n of the list lives at ProcBase(n); process 0 is  *)
(* the idle process, which exists but is not on the list.                   *)
(***************************************************************************)
\* the guest's processes: the inline image name (NameCap + 1 bytes) and the
\* UNICODE_STRING of the audit information: length, max_length and the bytes
\* of the code units its buffer holds
Proc(img, len, max, units) ==
    [img |-> img, length |-> len, max_length |-> max, buf |-> Utf16Bytes(units)]
\* a short name; a name cut at NameCap whose full path ends in the short name
WalkProfiles ==
    { Proc(Pad(Smss), 14, 14, Path(SMSS)),
      Proc(Pad(Long16), 14, 14, Path(Smss)) }
\* and: another short name; a cut name whose full path ends in the long name;
\* a descriptor with length > max_length; a path that does not decode; an
\* empty path
Profiles ==
    WalkProfiles \cup
    { Proc(Pad(SMSS), 14, 14, Path(Smss)),
      Proc(Pad(Long16), 38, 38, Path(Long16)),
      Proc(Pad(Long16), 40, 38, Path(Long16)),
      Proc(Pad(Long16), 8, 8, Path(<<LoneSurrogate>>)),
      Proc(Pad(Long16), 0, 0, <<>>) }

\* how many processes the guest may put on the list
MaxProcs == 2

ProcBase(n) == (16 + n) * PAGE_SIZE
HeadAddr == GuestSymbol[PsActiveProcessHead]
LinkAddr(n) == ProcBase(n) + GuestOffset[EPROCESS_ActiveProcessLinks]
KprocAddr(n) == ProcBase(n) + GuestOffset[EPROCESS_Pcb]
DtbOf(n) == (256 + n) * PAGE_SIZE
NameInfoAddr(n) == ProcBase(n) + 2048
NameBufAddr(n) == ProcBase(n) + 3072
KpcrAddr == 32 * PAGE_SIZE
UserGsBase == PAGE_SIZE \div 2
ThreadAddr(n) == (33 + n) * PAGE_SIZE
CurrentThreadCell == KpcrAddr + GuestOffset[KPCR_Prcb] + GuestOffset[KPRCB_CurrentThread]

(***************************************************************************)
(* The guest's modules.  A process with a PEB has a loader list in its own  *)
(* address space; every process uses the same user addresses, so what a     *)
(* read of one of them gives depends on the address space selected.         *)
(***************************************************************************)
\* a module: its FullDllName descriptor and buffer, its base and size
Mod(len, max, units, n) ==
    [length |-> len, max_length |-> max, buf |-> Utf16Bytes(units),
     base |-> (128 + n) * PAGE_SIZE, size |-> (1 + n) * PAGE_SIZE]
NtDll == <<110, 116, 100, 108, 108>>
\* a descriptor with slack after the string, and one with length > max_length
ModSound == Mod(4, 10, NtDll, 1)
ModCorrupt == Mod(12, 10, NtDll, 2)
PebAddr == 64 * PAGE_SIZE
LdrAddr == 65 * PAGE_SIZE
\* a process with its PEB pointer and its modules in load order
ProcM(pb, ms) ==
    [img |-> Pad(Smss), length |-> 14, max_length |-> 14, buf |-> Utf16Bytes(Path(SMSS)),
     peb |-> pb, mods |-> ms]
\* the system process (no PEB), a process with an empty loader list, and a
\* process with two modules
ModProfiles ==
    { ProcM(0, <<>>), ProcM(PebAddr, <<>>), ProcM(PebAddr, <<ModSound, ModCorrupt>>) }
HasMods(n) == "mods" \in DOMAIN procs[n]
ModsOf(n) == IF HasMods(n) THEN procs[n].mods ELSE <<>>
ModHeadAddr == LdrAddr + GuestOffset[PEB_LDR_DATA_InLoadOrderModuleList]
ModEntry(m) == (66 + m) * PAGE_SIZE
ModLinkAddr(m) == ModEntry(m) + GuestOffset[LDR_DATA_TABLE_ENTRY_InLoadOrderLinks]
ModNameAddr(m) == ModEntry(m) + GuestOffset[LDR_DATA_TABLE_ENTRY_FullDllName]
ModBufAddr(m) == ModEntry(m) + 2048

\* the address space the backend resolves user addresses in: that of the
\* innermost switch, or none
Selected == IF ctx = <<>> THEN 0 ELSE ctx[Len(ctx)]
\* the listed processes whose address space is selected
InSpace == {n \in 1..Len(procs) : DtbOf(n) = Selected /\ HasMods(n)}

\* EPROCESS.Peb of each process, in kernel memory
PebCells ==
    {<<ProcBase(n) + GuestOffset[EPROCESS_Peb], procs[n].peb>> :
         n \in {k \in 1..Len(procs) : HasMods(k)}}
\* the pointers of the selected address space
UserPtrCells ==
    UNION {
        {<<PebAddr + GuestOffset[PEB_Ldr], LdrAddr>>,
         <<ModHeadAddr, IF Len(ModsOf(n)) = 0 THEN ModHeadAddr ELSE ModLinkAddr(1)>>}
        \cup {<<ModLinkAddr(m),
                IF m < Len(ModsOf(n)) THEN ModLinkAddr(m + 1) ELSE ModHeadAddr>> :
                  m \in 1..Len(ModsOf(n))}
        \cup {<<ModEntry(m) + GuestOffset[LDR_DATA_TABLE_ENTRY_DllBase],
                ModsOf(n)[m].base>> : m \in 1..Len(ModsOf(n))}
        \cup {<<ModEntry(m) + GuestOffset[LDR_DATA_TABLE_ENTRY_SizeOfImage],
                ModsOf(n)[m].size>> : m \in 1..Len(ModsOf(n))}
        : n \in {k \in InSpace : procs[k].peb # 0}}
\* the bytes of the selected address space
UserByteCells ==
    UNION {
        {<<ModNameAddr(m),
           le16(ModsOf(n)[m].length) \o le16(ModsOf(n)[m].max_length) \o <<0, 0, 0, 0>>
               \o le64(ModBufAddr(m))>> : m \in 1..Len(ModsOf(n))}
        \cup {<<ModBufAddr(m), ModsOf(n)[m].buf>> : m \in 1..Len(ModsOf(n))}
        : n \in InSpace}

\* the pointer-sized cells of guest memory, <<address, value>>
PtrCells ==
    {<<HeadAddr, IF Len(procs) = 0 THEN HeadAddr ELSE LinkAddr(1)>>}
    \cup {<<LinkAddr(n), IF n < Len(procs) THEN LinkAddr(n + 1) ELSE HeadAddr>> :
             n \in 1..Len(procs)}
    \cup {<<KprocAddr(n) + GuestOffset[KPROCESS_DirectoryTableBase], DtbOf(n)>> :
             n \in 0..Len(procs)}
    \cup {<<ThreadAddr(n) + GuestOffset[KTHREAD_Process], KprocAddr(n)>> :
             n \in 0..Len(procs)}
    \cup {<<ProcBase(n) + GuestOffset[EPROCESS_SeAuditProcessCreationInfo]
              + GuestOffset[SE_AUDIT_PROCESS_CREATION_INFO_ImageFileName],
            NameInfoAddr(n)>> : n \in 1..Len(procs)}
    \cup PebCells
    \cup UserPtrCells

\* the byte ranges of guest memory, <<address, bytes>>
ByteCells ==
    {<<ProcBase(n) + GuestOffset[EPROCESS_ImageFileName], procs[n].img>> :
         n \in 1..Len(procs)}
    \cup {<<NameInfoAddr(n) + GuestOffset[OBJECT_NAME_INFORMATION_Name],
            le16(procs[n].length) \o le16(procs[n].max_length) \o <<0, 0, 0, 0>>
                \o le64(NameBufAddr(n))>> : n \in 1..Len(procs)}
    \cup {<<NameBufAddr(n), procs[n].buf>> : n \in 1..Len(procs)}
    \cup UserByteCells

\* core::read_ptr(core, a): the cell at a, absent when the backend read fails
\* (ok = FALSE) or nothing is mapped at a
read_ptr(a, ok) ==
    IF ok /\ \E c \in PtrCells : c[1] = a
    THEN Some((CHOOSE c \in PtrCells : c[1] = a)[2])
    ELSE None

\* the same with process `cur` running on the processor
read_ptr_cur(a, ok, cur) ==
    IF ok /\ a = CurrentThreadCell THEN Some(ThreadAddr(cur)) ELSE read_ptr(a, ok)

\* core.read(dst, a, n): the first n bytes at a. A read of no bytes touches
\* no memory; the backend still answers it
read(a, n, ok) ==
    IF ~ok THEN None
    ELSE IF n = 0 THEN Some(<<>>)
    ELSE IF \E c \in ByteCells : c[1] = a /\ Len(c[2]) >= n
    THEN Some(SubSeq((CHOOSE c \in ByteCells : c[1] = a)[2], 1, n))
    ELSE None

\* how one get_proc_name call goes: every backend read succeeds ("none"), or
\* the named read is the one that fails (no read follows a failed one), or a
\* build that checks vector subscripts traps on &buffer[0] of an empty vector
FailPats == {"none", "img", "ptr", "desc", "buf", "trap"}

\* what a helper hands back to the action that runs it: its value, the
\* backend calls it made and the diagnostics it emitted; fault when it never
\* returned
Result(val, calls, msgs) == [val |-> val, calls |-> calls, msgs |-> msgs, fault |-> FALSE]
Fault(calls, msgs) == [val |-> None, calls |-> calls, msgs |-> msgs, fault |-> TRUE]

(***************************************************************************)
(* read_unicode_string                                                      *)
(***************************************************************************)
\* a reader that trusts the descriptor's length
read_unicode_string_NoSanityCheck(unicode_string, f) ==
    With(read(unicode_string, 16, f # "desc"), LAMBDA d :
    With(<<ReadCall(unicode_string, 16, d.some)>>, LAMBDA c1 :
      IF ~d.some THEN Result(None, c1, <<"unable to read UNICODE_STRING">>)
      ELSE
      With([length |-> read_le16(SubSeq(d.v, 1, 2)),
            max_length |-> read_le16(SubSeq(d.v, 3, 4)),
            buffer |-> read_le64(SubSeq(d.v, 9, 16))], LAMBDA us :
        With(read(us.buffer, us.length, f # "buf"), LAMBDA b :
          IF ~b.some
          THEN Result(None, Append(c1, ReadCall(us.buffer, us.length, FALSE)),
                      <<"unable to read UNICODE_STRING.buffer">>)
          ELSE Result(convert(b.v), Append(c1, ReadCall(us.buffer, us.length, TRUE)), <<>>)))))

read_unicode_string(unicode_string, f) ==
    With(read(unicode_string, 16, f # "desc"), LAMBDA d :
    With(<<ReadCall(unicode_string, 16, d.some)>>, LAMBDA c1 :
      IF ~d.some THEN Result(None, c1, <<"unable to read UNICODE_STRING">>)
      ELSE
      With([length |-> read_le16(SubSeq(d.v, 1, 2)),
            max_length |-> read_le16(SubSeq(d.v, 3, 4)),
            buffer |-> read_le64(SubSeq(d.v, 9, 16))], LAMBDA us :
        IF us.length > us.max_length
        THEN Result(None, c1, <<"corrupted UNICODE_STRING">>)
        \* std::vector<uint8_t> buffer(us.length); &buffer[0]
        ELSE IF us.length = 0 /\ f = "trap" THEN Fault(c1, <<>>)
        ELSE
        With(read(us.buffer, us.length, f # "buf"), LAMBDA b :
          IF ~b.some
          THEN Result(None, Append(c1, ReadCall(us.buffer, us.length, FALSE)),
                      <<"unable to read UNICODE_STRING.buffer">>)
          ELSE Result(convert(b.v), Append(c1, ReadCall(us.buffer, us.length, TRUE)), <<>>)))))

(***************************************************************************)
(* OsNt::get_proc_name                                                      *)
(***************************************************************************)
\* the fallback, once name fills the buffer: calls are the backend calls so far
get_proc_name_full(proc, f, name, calls) ==
    With(Add(Add(proc.id, members_[EPROCESS_SeAuditProcessCreationInfo]),
             members_[SE_AUDIT_PROCESS_CREATION_INFO_ImageFileName]), LAMBDA a2 :
    With(read_ptr(a2, f # "ptr"), LAMBDA image_file_name :
    With(Append(calls, Call("read_ptr", "", a2, image_file_name.some)), LAMBDA c2 :
      IF ~image_file_name.some THEN Result(Some(name), c2, <<>>)
      ELSE
      With(read_unicode_string(
               Add(image_file_name.v, members_[OBJECT_NAME_INFORMATION_Name]), f),
           LAMBDA path :
        IF path.fault THEN Fault(c2 \o path.calls, path.msgs)
        ELSE IF ~path.val.some THEN Result(Some(name), c2 \o path.calls, path.msgs)
        ELSE Result(Some(filename(path.val.v)), c2 \o path.calls, path.msgs)))))

\* a resolver that takes a name of NameCap characters for a whole one
get_proc_name_NoFallbackAtCap(proc, f) ==
    With(Add(proc.id, members_[EPROCESS_ImageFileName]), LAMBDA a1 :
    With(read(a1, NameCap + 1, f # "img"), LAMBDA ok :
    With(<<Call("read", "", a1, ok.some)>>, LAMBDA c1 :
      IF ~ok.some THEN Result(None, c1, <<>>)
      ELSE
      With(CStr(SubSeq(ok.v, 1, NameCap)), LAMBDA name :
        IF Len(name) <= NameCap THEN Result(Some(name), c1, <<>>)
        ELSE get_proc_name_full(proc, f, name, c1)))))

get_proc_name(proc, f) ==
    With(Add(proc.id, members_[EPROCESS_ImageFileName]), LAMBDA a1 :
    With(read(a1, NameCap + 1, f # "img"), LAMBDA ok :
    With(<<Call("read", "", a1, ok.some)>>, LAMBDA c1 :
      IF ~ok.some THEN Result(None, c1, <<>>)
      ELSE
      \* buffer[sizeof buffer - 1] = 0; const auto name = std::string{buffer};
      With(CStr(SubSeq(ok.v, 1, NameCap)), LAMBDA name :
        IF Len(name) < NameCap THEN Result(Some(name), c1, <<>>)
        ELSE get_proc_name_full(proc, f, name, c1)))))

(***************************************************************************)
(* read_gs_base: gs and kgs are what the backend answers for MSR_GS_BASE    *)
(* and MSR_KERNEL_GS_BASE.                                                  *)
(***************************************************************************)
\* a lookup that takes MSR_GS_BASE whatever it holds
read_gs_base_NoTopBitsTest(gs, kgs) ==
    Result(gs, <<Call("regs.read", "MSR_GS_BASE", 0, gs.some)>>, <<>>)

read_gs_base(gs, kgs) ==
    IF ~gs.some THEN Result(None, <<Call("regs.read", "MSR_GS_BASE", 0, FALSE)>>, <<>>)
    ELSE IF TopBitsSet(gs.v)
    THEN Result(gs, <<Call("regs.read", "MSR_GS_BASE", 0, TRUE)>>, <<>>)
    ELSE Result(kgs, <<Call("regs.read", "MSR_GS_BASE", 0, TRUE),
                       Call("regs.read", "MSR_KERNEL_GS_BASE", 0, kgs.some)>>, <<>>)

(***************************************************************************)
(* Between two calls.  The caller takes the value an operation returned     *)
(* (the operation's locals and its diagnostics end with it), and the guest  *)
(* runs: a process is created and linked at the tail of the active process  *)
(* list.                                                                    *)
(***************************************************************************)
CallerResumes ==
    /\ pc = "returned"
    /\ pc' = "idle"
    /\ call' = NoCall
    /\ link' = None
    /\ visited' = <<>>
    /\ answers' = <<>>
    /\ gots' = <<>>
    /\ found' = None
    /\ ub' = FALSE
    /\ ret' = None
    /\ trace' = <<>>
    /\ log' = <<>>
    /\ UNCHANGED <<procs, bootvars>>
    /\ UNCHANGED <<kvars, mvars>>

Spawn(kinds) ==
    /\ pc = "idle"
    /\ Len(procs) < MaxProcs
    /\ \E p \in kinds : procs' = Append(procs, p)
    /\ UNCHANGED <<pc, call, link, visited, answers, gots, found, ub, ret, trace, log,
                   bootvars>>
    /\ UNCHANGED <<kvars, mvars>>

GuestSpawn == Spawn(WalkProfiles)
GuestSpawnAny == Spawn(Profiles)

(***************************************************************************)
(* OsNt::list_procs, called with a visitor of its caller's                  *)
(* (call.op = "list_procs") or with the lambda of OsNt::get_proc            *)
(* (call.op = "get_proc", looking for call.name).                           *)
(***************************************************************************)
SearchNames == {Smss, SMSS, Long14}
Callers == {[op |-> "list_procs", name |-> <<>>, proc |-> NoProc, env |-> <<>>]}
               \cup {[op |-> "get_proc", name |-> n, proc |-> NoProc, env |-> <<>>] :
                        n \in SearchNames}

\* link = <opt>: an engaged optional takes the value; a disengaged one keeps
\* the bytes of the value it held
Assign(old, new) == IF new.some THEN new ELSE [some |-> FALSE, v |-> old.v]

\* link != head, for opt<uint64_t> link
LinkIsNot(l, head) == ~(l.some /\ l.v = head)

\* const auto head = symbols_[PsActiveProcessHead]; auto link = core::read_ptr(core_, head)
ListProcsBegin ==
    /\ pc = "idle"
    /\ nt = "handler"
    /\ \E c \in Callers, ok \in BOOLEAN :
         \E head \in {symbols_[PsActiveProcessHead]} : \E r \in {read_ptr(head, ok)} :
            /\ call' = c
            /\ link' = r
            /\ trace' = <<Call("read_ptr", "", head, r.some)>>
    /\ pc' = "walk"
    /\ UNCHANGED <<visited, answers, gots, found, ub, ret, log, procs, bootvars>>
    /\ UNCHANGED <<kvars, mvars>>

\* a lambda that also stops at a process whose name it cannot read
Visit_StopsOnUnreadable(proc, f, w) ==
    IF call.op = "get_proc"
    THEN With(get_proc_name(proc, f), LAMBDA got :
           [walk |-> IF got.val.some /\ got.val.v # call.name
                     THEN "WALK_NEXT" ELSE "WALK_STOP",
            got |-> got])
    ELSE [walk |-> w, got |-> Result(None, <<>>, <<>>)]

\* what on_process answers: any answer for a caller's visitor; for get_proc's
\* lambda, WALK_STOP exactly when get_proc_name(proc) equals the name
Visit(proc, f, w) ==
    IF call.op = "get_proc"
    THEN With(get_proc_name(proc, f), LAMBDA got :
           [walk |-> IF got.val.some /\ got.val.v = call.name
                     THEN "WALK_STOP" ELSE "WALK_NEXT",
            got |-> got])
    ELSE [walk |-> w, got |-> Result(None, <<>>, <<>>)]

\* the link taken for the start of the process object
eproc_of_link_NoOffset(lv) == lv

\* const auto eproc = *link - members_[EPROCESS_ActiveProcessLinks]
eproc_of_link(lv) == Sub(lv, members_[EPROCESS_ActiveProcessLinks])

\* break in the place of continue
SkipNode_LeavesLoop(next, calls) ==
    /\ link' = link
    /\ trace' = calls
    /\ pc' = "walk_end"

\* if(!dtb) { LOG(...); continue; }: on to link = core::read_ptr(core_, *link)
SkipNode(next, calls) ==
    /\ link' = Assign(link, next)
    /\ trace' = calls
    /\ pc' = "walk"

\* one iteration of the loop, with lv the value of *link: the body, then
\* link = core::read_ptr(core_, *link) unless the body left the loop
ListProcsBody(lv, okd, okl, f, w) ==
    \E eproc \in {eproc_of_link(lv)} :
    \E a \in {Add(Add(eproc, members_[EPROCESS_Pcb]), members_[KPROCESS_DirectoryTableBase])} :
    \E dtb \in {read_ptr(a, okd)} :
    \E c1 \in {Append(trace, Call("read_ptr", "", a, dtb.some))} :
    \E next \in {read_ptr(lv, okl)} :
    \E cn \in {<<Call("read_ptr", "", lv, next.some)>>} :
       IF ~dtb.some
       THEN /\ log' = Append(log, <<"unable to read KPROCESS.DirectoryTableBase", eproc>>)
            /\ SkipNode(next, c1 \o cn)
            /\ UNCHANGED <<visited, answers, gots, found>>
       ELSE \E proc \in {[id |-> eproc, dtb |-> dtb.v]} :
            \E err \in {Visit(proc, f, w)} :
               /\ visited' = Append(visited, proc)
               /\ answers' = Append(answers, err.walk)
               /\ gots' = IF call.op = "get_proc" THEN Append(gots, err.got.val) ELSE gots
               /\ log' = log \o err.got.msgs
               /\ IF err.got.fault
                  THEN /\ pc' = "fault"
                       /\ trace' = c1
                       /\ UNCHANGED <<link, found>>
                  ELSE IF err.walk = "WALK_STOP"
                  THEN /\ pc' = "walk_end"
                       /\ found' = IF call.op = "get_proc" THEN Some(proc) ELSE found
                       /\ trace' = c1
                       /\ UNCHANGED link
                  ELSE /\ pc' = "walk"
                       /\ link' = Assign(link, next)
                       /\ trace' = c1 \o cn
                       /\ UNCHANGED found

\* link != head holds and the body runs.  When link is empty, *link is
\* undefined: the build traps, or the body goes on with what the optional's
\* storage holds (the value it held before, or zero).  One such dereference is
\* followed per walk, and one iteration more than the list is long
ListProcsIter ==
    /\ pc = "walk"
    /\ LinkIsNot(link, symbols_[PsActiveProcessHead])
    /\ Len(trace) <= 2 * MaxProcs + 1
    /\ link.some \/ ~ub
    /\ \E okd \in BOOLEAN, okl \in BOOLEAN,
          f \in (IF call.op = "get_proc" THEN FailPats ELSE {"none"}),
          w \in (IF call.op = "get_proc" THEN {"WALK_NEXT"} ELSE {"WALK_NEXT", "WALK_STOP"}),
          trap \in (IF link.some THEN {FALSE} ELSE BOOLEAN),
          lv \in (IF link.some THEN {link.v} ELSE {link.v, 0}) :
         /\ ub' = (ub \/ ~link.some)
         /\ IF trap
            THEN /\ pc' = "fault"
                 /\ UNCHANGED <<link, visited, answers, gots, found, trace, log>>
            ELSE ListProcsBody(lv, okd, okl, f, w)
    /\ UNCHANGED <<procs, call, ret, bootvars>>
    /\ UNCHANGED <<kvars, mvars>>

\* the loop ends (link == head, or break): return true; get_proc returns found
ListProcsReturn ==
    /\ \/ pc = "walk" /\ ~LinkIsNot(link, symbols_[PsActiveProcessHead])
       \/ pc = "walk_end"
    /\ ret' = Some(IF call.op = "get_proc" THEN found ELSE TRUE)
    /\ pc' = "returned"
    /\ UNCHANGED <<procs, call, link, visited, answers, gots, found, ub, trace, log,
                   bootvars>>
    /\ UNCHANGED <<kvars, mvars>>

(***************************************************************************)
(* OsNt::get_proc_name, called with a handle of a listed process or with    *)
(* the handle of a process the guest has freed since.                       *)
(***************************************************************************)
HandleOf(n) == [id |-> ProcBase(n), dtb |-> DtbOf(n)]
Handles == {HandleOf(n) : n \in 1..(Len(procs) + 1)}

GetProcName ==
    /\ pc = "idle"
    /\ nt = "handler"
    /\ \E h \in Handles, f \in FailPats :
         \E r \in {get_proc_name(h, f)} :
            /\ call' = [op |-> "get_proc_name", name |-> <<>>, proc |-> h, env |-> f]
            /\ trace' = r.calls
            /\ log' = r.msgs
            /\ IF r.fault THEN pc' = "fault" /\ ret' = None
                          ELSE pc' = "returned" /\ ret' = Some(r.val)
    /\ UNCHANGED <<link, visited, answers, gots, found, ub, procs, bootvars>>
    /\ UNCHANGED <<kvars, mvars>>

(***************************************************************************)
(* OsNt::get_current_proc, with process cur running on the processor.       *)
(***************************************************************************)
GsVals == {UserGsBase, KpcrAddr}
GsAnswers == {None} \cup {Some(v) : v \in GsVals}
\* how one get_current_proc call goes: no memory read fails, or the named one
CurPats == {"none", "thread", "kproc", "dtb"}

\* the KPROCESS address taken for the process id
eproc_of_kproc_NoOffset(kproc) == kproc

\* const auto eproc = *kproc - members_[EPROCESS_Pcb]
eproc_of_kproc(kproc) == Sub(kproc, members_[EPROCESS_Pcb])

get_current_proc(gsr, kgsr, cur, f) ==
    With(read_gs_base(gsr, kgsr), LAMBDA gs :
      IF ~gs.val.some THEN Result(None, gs.calls, <<>>)
      ELSE
      With(Add(Add(gs.val.v, members_[KPCR_Prcb]), members_[KPRCB_CurrentThread]), LAMBDA a1 :
      With(read_ptr_cur(a1, f # "thread", cur), LAMBDA current_thread :
      With(Append(gs.calls, Call("read_ptr", "", a1, current_thread.some)), LAMBDA c1 :
        IF ~current_thread.some
        THEN Result(None, c1, <<"unable to read KPCR.Prcb.CurrentThread">>)
        ELSE
        With(Add(current_thread.v, members_[KTHREAD_Process]), LAMBDA a2 :
        With(read_ptr(a2, f # "kproc"), LAMBDA kproc :
        With(Append(c1, Call("read_ptr", "", a2, kproc.some)), LAMBDA c2 :
          IF ~kproc.some THEN Result(None, c2, <<"unable to read KTHREAD.Process">>)
          ELSE
          With(Add(kproc.v, members_[KPROCESS_DirectoryTableBase]), LAMBDA a3 :
          With(read_ptr(a3, f # "dtb"), LAMBDA dtb :
          With(Append(c2, Call("read_ptr", "", a3, dtb.some)), LAMBDA c3 :
            IF ~dtb.some
            THEN Result(None, c3, <<"unable to read KPROCESS.DirectoryTableBase">>)
            ELSE Result(Some([id |-> eproc_of_kproc(kproc.v), dtb |-> dtb.v]),
                        c3, <<>>)))))))))))

GetCurrentProc ==
    /\ pc = "idle"
    /\ nt = "handler"
    /\ \E gsr \in GsAnswers, kgsr \in GsAnswers, cur \in 0..Len(procs), f \in CurPats :
         \E r \in {get_current_proc(gsr, kgsr, cur, f)} :
            /\ call' = [op |-> "get_current_proc", name |-> <<>>, proc |-> NoProc,
                         env |-> [gs |-> gsr, kgs |-> kgsr, cur |-> cur, f |-> f]]
            /\ trace' = r.calls
            /\ log' = r.msgs
            /\ ret' = Some(r.val)
    /\ pc' = "returned"
    /\ UNCHANGED <<link, visited, answers, gots, found, ub, procs, bootvars>>
    /\ UNCHANGED <<kvars, mvars>>

(***************************************************************************)
(* The address-space switch.  core_.switch_process(proc) gives a guard:     *)
(* while it lives, user addresses resolve in proc's address space; when its *)
(* scope ends, the selection made before it is back.                        *)
(***************************************************************************)
switch_process(c, proc) == Append(c, proc.dtb)
release(c) == SubSeq(c, 1, Len(c) - 1)

\* a guard that outlives its scope
ctx_scope_end_Leaks(c) == c

\* the closing brace of the scope of `const auto ctx`
ctx_scope_end(c) == release(c)

(***************************************************************************)
(* OsNt::get_mod_name and OsNt::get_mod_span, after their switch.           *)
(***************************************************************************)
get_mod_name(mod, f) ==
    read_unicode_string(Add(mod, members_[LDR_DATA_TABLE_ENTRY_FullDllName]), f)

get_mod_span(mod, f) ==
    With(Add(mod, members_[LDR_DATA_TABLE_ENTRY_DllBase]), LAMBDA a1 :
    With(read_ptr(a1, f # "base"), LAMBDA base :
    With(<<Call("read_ptr", "", a1, base.some)>>, LAMBDA c1 :
      IF ~base.some THEN Result(None, c1, <<>>)
      ELSE
      With(Add(mod, members_[LDR_DATA_TABLE_ENTRY_SizeOfImage]), LAMBDA a2 :
      With(read_ptr(a2, f # "size"), LAMBDA size :
      With(Append(c1, Call("read_ptr", "", a2, size.some)), LAMBDA c2 :
        IF ~size.some THEN Result(None, c2, <<>>)
        ELSE Result(Some([addr |-> base.v, size |-> size.v]), c2, <<>>)))))))

ModOps == {"get_mod_name", "get_mod_span"}
\* how one such call goes: every read succeeds, or the named one fails
ModPats(op) == IF op = "get_mod_name" THEN {"none", "desc", "buf"}
               ELSE {"none", "base", "size"}
mod_op(op, mod, f) == IF op = "get_mod_name" THEN get_mod_name(mod, f)
                      ELSE get_mod_span(mod, f)
\* the module handles a caller may hold: of a loaded module, or stale
ModHandles == {ModEntry(m) : m \in 1..3}

\* const auto ctx = core_.switch_process(proc), at the top of either
GetModEnter ==
    /\ pc = "idle"
    /\ nt = "handler"
    /\ \E h \in Handles, mod \in ModHandles, op \in ModOps :
         /\ call' = [op |-> op, name |-> <<>>, proc |-> h, env |-> mod]
         /\ inner' = [op |-> op, mod |-> mod, ret |-> None]
         /\ ctx' = switch_process(ctx, h)
         /\ trace' = <<Call("switch_process", "", h.dtb, TRUE)>>
    /\ pc' = "mod_call"
    /\ UNCHANGED <<link, visited, answers, gots, found, ub, ret, log, procs, lm, bootvars>>
    /\ UNCHANGED kvars

\* the reads, and the return through the end of ctx's scope
GetModLeave ==
    /\ pc = "mod_call"
    /\ \E f \in ModPats(inner.op) :
         \E r \in {mod_op(inner.op, inner.mod, f)} :
            /\ trace' = trace \o r.calls
            /\ log' = r.msgs
            /\ IF r.fault THEN pc' = "fault" /\ ret' = None /\ UNCHANGED ctx
                          ELSE /\ pc' = "returned"
                               /\ ret' = Some(r.val)
                               /\ ctx' = ctx_scope_end(ctx)
    /\ inner' = NoInner
    /\ UNCHANGED <<call, link, visited, answers, gots, found, ub, procs, lm, bootvars>>
    /\ UNCHANGED kvars

(***************************************************************************)
(* OsNt::list_mods                                                          *)
(***************************************************************************)
\* the walk's answers
WalkAnswers == {"WALK_NEXT", "WALK_STOP"}

\* a loop that goes on from a link it could not read
ModLoopRuns_NoEngagedTest == link.v # lm.head

\* the loop's condition: link && link != head
ModLoopRuns == link.some /\ link.v # lm.head

\* a walk that takes the system process for any other
NoPeb_Never(peb) == FALSE

\* if(!*peb)
NoPeb(peb) == peb.v = 0

\* from the entry to the switch: the Peb read and its two early returns
ListModsBegin ==
    /\ pc = "idle"
    /\ nt = "handler"
    /\ \E h \in Handles, ok \in BOOLEAN :
       \E a \in {Add(h.id, members_[EPROCESS_Peb])} :
       \E peb \in {read_ptr(a, ok)} :
         /\ call' = [op |-> "list_mods", name |-> <<>>, proc |-> h, env |-> <<>>]
         /\ IF ~peb.some
            THEN /\ trace' = <<Call("read_ptr", "", a, FALSE)>>
                 /\ log' = <<"unable to read EPROCESS.Peb">>
                 /\ ret' = Some(FALSE)
                 /\ pc' = "returned"
                 /\ UNCHANGED <<ctx, lm>>
            \* no PEB on system process
            ELSE IF NoPeb(peb)
            THEN /\ trace' = <<Call("read_ptr", "", a, TRUE)>>
                 /\ log' = <<>>
                 /\ ret' = Some(TRUE)
                 /\ pc' = "returned"
                 /\ UNCHANGED <<ctx, lm>>
            ELSE /\ trace' = <<Call("read_ptr", "", a, TRUE),
                                Call("switch_process", "", h.dtb, TRUE)>>
                 /\ log' = <<>>
                 /\ ret' = None
                 /\ ctx' = switch_process(ctx, h)
                 /\ lm' = [peb |-> peb.v, head |-> 0]
                 /\ pc' = "mods_ldr"
    /\ visited' = <<>>
    /\ answers' = <<>>
    /\ inner' = NoInner
    /\ UNCHANGED <<link, gots, found, ub, procs, bootvars>>
    /\ UNCHANGED kvars

\* the Ldr read, the head of the list and the first link
ListModsLdr ==
    /\ pc = "mods_ldr"
    /\ \E okr \in BOOLEAN, okl \in BOOLEAN :
       \E a \in {Add(lm.peb, members_[PEB_Ldr])} :
       \E ldr \in {read_ptr(a, okr)} :
         IF ~ldr.some
         THEN /\ trace' = Append(trace, Call("read_ptr", "", a, FALSE))
              /\ log' = <<"unable to read PEB.Ldr">>
              /\ ret' = Some(FALSE)
              /\ ctx' = ctx_scope_end(ctx)
              /\ lm' = NoLm
              /\ pc' = "returned"
              /\ UNCHANGED link
         ELSE \E head \in {Add(ldr.v, members_[PEB_LDR_DATA_InLoadOrderModuleList])} :
              \E l \in {read_ptr(head, okl)} :
                /\ trace' = trace \o <<Call("read_ptr", "", a, TRUE),
                                         Call("read_ptr", "", head, l.some)>>
                /\ link' = l
                /\ lm' = [lm EXCEPT !.head = head]
                /\ pc' = "mods_walk"
                /\ UNCHANGED <<log, ret, ctx>>
    /\ UNCHANGED <<call, visited, answers, gots, found, ub, procs, inner, bootvars>>
    /\ UNCHANGED kvars

\* the loop's body up to the visitor: on_mod(*link - InLoadOrderLinks)
ListModsVisit ==
    /\ pc = "mods_walk"
    /\ ModLoopRuns
    /\ visited' = Append(visited, Sub(link.v, members_[LDR_DATA_TABLE_ENTRY_InLoadOrderLinks]))
    /\ pc' = "mods_visit"
    /\ UNCHANGED <<call, trace, log, link, answers, gots, found, ub, ret, procs, bootvars>>
    /\ UNCHANGED <<kvars, mvars>>

\* the visitor asks for the name or the span of the module it was given
VisitorEnter ==
    /\ pc = "mods_visit"
    /\ inner.op = "none"
    /\ \E op \in ModOps :
         inner' = [op |-> op, mod |-> visited[Len(visited)], ret |-> None]
    /\ ctx' = switch_process(ctx, call.proc)
    /\ trace' = Append(trace, Call("switch_process", "", call.proc.dtb, TRUE))
    /\ UNCHANGED <<pc, call, log, link, visited, answers, gots, found, ub, ret, procs, lm,
                   bootvars>>
    /\ UNCHANGED kvars

\* and gets its answer
VisitorLeave ==
    /\ pc = "mods_visit"
    /\ inner.op \in ModOps
    /\ \E r \in {mod_op(inner.op, inner.mod, "none")} :
         /\ trace' = trace \o r.calls
         /\ log' = log \o r.msgs
         /\ inner' = [inner EXCEPT !.op = "done", !.ret = Some(r.val)]
    /\ ctx' = ctx_scope_end(ctx)
    /\ UNCHANGED <<pc, call, link, visited, answers, gots, found, ub, ret, procs, lm, bootvars>>
    /\ UNCHANGED kvars

\* the visitor's answer: WALK_STOP breaks, WALK_NEXT reads the next link
ListModsStep ==
    /\ pc = "mods_visit"
    /\ inner.op \in {"none", "done"}
    /\ \E w \in WalkAnswers, ok \in BOOLEAN :
         /\ answers' = Append(answers, w)
         /\ IF w = "WALK_STOP"
            THEN pc' = "mods_end" /\ UNCHANGED <<link, trace>>
            ELSE /\ link' = Assign(link, read_ptr(link.v, ok))
                 /\ trace' = Append(trace, Call("read_ptr", "", link.v, link'.some))
                 /\ pc' = "mods_walk"
    /\ inner' = NoInner
    /\ UNCHANGED <<call, log, visited, gots, found, ub, ret, procs, ctx, lm, bootvars>>
    /\ UNCHANGED kvars

\* the loop is over, by its condition or by break: return true
ListModsReturn ==
    /\ \/ pc = "mods_walk" /\ ~ModLoopRuns
       \/ pc = "mods_end"
    /\ ret' = Some(TRUE)
    /\ ctx' = ctx_scope_end(ctx)
    /\ lm' = NoLm
    /\ pc' = "returned"
    /\ UNCHANGED <<call, trace, log, link, visited, answers, gots, found, ub, procs, inner,
                   bootvars>>
    /\ UNCHANGED kvars

GuestSpawnMods == Spawn(ModProfiles)

(***************************************************************************)
(* The bootstrap with find_kernel taken one page read at a time.            *)
(***************************************************************************)
NextKernel ==
    \/ SetupReadLstarAny
    \/ KernelScanBegin
    \/ KernelScanStep
    \/ KernelScanEnd
    \/ SetupAfterScan
    \/ SetupReadKernel
    \/ SetupInsert
    \/ SetupSymbol
    \/ SetupSymbolsEnd
    \/ SetupMember
    \/ SetupCheck
    \/ MakeNtReturn

SpecKernel == Init /\ [][NextKernel]_vars

NextMods ==
    \/ SetupReadLstar
    \/ SetupFindKernel
    \/ SetupReadKernel
    \/ SetupInsert
    \/ SetupSymbol
    \/ SetupSymbolsEnd
    \/ SetupMember
    \/ SetupCheck
    \/ MakeNtReturn
    \/ GuestSpawnMods
    \/ GetModEnter
    \/ GetModLeave
    \/ ListModsBegin
    \/ ListModsLdr
    \/ ListModsVisit
    \/ VisitorEnter
    \/ VisitorLeave
    \/ ListModsStep
    \/ ListModsReturn
    \/ CallerResumes

SpecMods == Init /\ [][NextMods]_vars

Next ==
    \/ SetupReadLstar
    \/ SetupFindKernel
    \/ SetupReadKernel
    \/ SetupInsert
    \/ SetupSymbol
    \/ SetupSymbolsEnd
    \/ SetupMember
    \/ SetupCheck
    \/ MakeNtReturn
    \/ CallerResumes
    \/ GuestSpawn
    \/ ListProcsBegin
    \/ ListProcsIter
    \/ ListProcsReturn
    \/ GetProcName
    \/ GetCurrentProc

Spec == Init /\ [][Next]_vars

(***************************************************************************)
(* The name resolver alone, over every kind of process.                     *)
(***************************************************************************)
NextName ==
    \/ SetupReadLstar
    \/ SetupFindKernel
    \/ SetupReadKernel
    \/ SetupInsert
    \/ SetupSymbol
    \/ SetupSymbolsEnd
    \/ SetupMember
    \/ SetupCheck
    \/ MakeNtReturn
    \/ CallerResumes
    \/ GuestSpawnAny
    \/ GetProcName

SpecName == Init /\ [][NextName]_vars

(***************************************************************************)
(* Bootstrap.  While setup runs, trace holds its backend calls in program   *)
(* order: MSR_LSTAR, find_kernel, the module read, sym.insert, then one     *)
(* lookup per catalog entry.                                                *)
(***************************************************************************)
\* what setup calls before its loops
PrerequisiteCalls == <<"regs.read", "find_kernel", "read", "sym.insert">>
Prerequisites == Len(PrerequisiteCalls)
CatalogSize == SYMBOL_OFFSET_COUNT + MEMBER_OFFSET_COUNT
Resolved ==
    /\ \A s \in DOMAIN symbols_ : symbols_[s] # Unset
    /\ \A m \in DOMAIN members_ : members_[m] # Unset
Unresolved ==
    Cardinality({s \in DOMAIN symbols_ : symbols_[s] = Unset})
        + Cardinality({m \in DOMAIN members_ : members_[m] = Unset})
IsLookup(t) == t.call \in {"sym.symbol", "sym.struc_offset"}
DiagnosticOf(t) ==
    "unable to read " \o t.reg
        \o (IF t.call = "sym.symbol" THEN " symbol offset" ELSE " member offset")
\* the diagnostics of the failed lookups among calls, in order
RECURSIVE DiagnosticsOf(_)
DiagnosticsOf(calls) ==
    IF calls = <<>> THEN <<>>
    ELSE (IF IsLookup(Head(calls)) /\ ~Head(calls).ok
          THEN <<DiagnosticOf(Head(calls))>> ELSE <<>>) \o DiagnosticsOf(Tail(calls))
\* the catalog in the order the loops go through it
CatalogOrder ==
    [k \in 1..CatalogSize |->
        IF k <= SYMBOL_OFFSET_COUNT THEN g_symbol_offsets[k - 1]
        ELSE g_member_offsets[k - 1 - SYMBOL_OFFSET_COUNT]]
\* setup has returned from its last statements, past both loops
LoopsDone ==
    /\ pc = "setup_ret"
    /\ Len(trace) >= Prerequisites
    /\ trace[Prerequisites].call = PrerequisiteCalls[Prerequisites]
    /\ trace[Prerequisites].ok
QueryPcs == {"idle", "walk", "walk_end", "fault"}

\* C1: make_nt hands out a handler only when the whole bootstrap succeeded:
\* setup returns true only after LSTAR was read, the kernel found and read,
\* its symbols loaded, every one of the 23 catalog entries resolved and
\* KiSystemCall64 found equal to LSTAR; a handler exists only with a fully
\* resolved table, and no query runs without a handler.
C1_HandlerOnlyAfterFullBootstrap ==
    /\ (pc = "setup_ret" /\ setupRet.some /\ setupRet.v) =>
          /\ Len(trace) = Prerequisites + CatalogSize
          /\ \A k \in 1..Len(trace) : trace[k].ok
          /\ \A k \in 1..Prerequisites : trace[k].call = PrerequisiteCalls[k]
          /\ lstar.some /\ kernel.some
          /\ Resolved
          /\ symbols_[KiSystemCall64] = lstar.v
    /\ (nt = "handler") => (Resolved /\ setupRet.some /\ setupRet.v)
    /\ (pc \in QueryPcs \/ call.op # "none") => nt = "handler"
    /\ (pc = "no_handler") => (nt = "null" /\ call.op = "none")

\* C1 witness: a query has run on the handler of a successful bootstrap
C1_Witness ==
    /\ nt = "handler"
    /\ pc = "returned"
    /\ call.op = "get_current_proc"
    /\ ret.some /\ ret.v.some

\* every catalog entry resolved, and KiSystemCall64 is not the LSTAR value
MismatchCase == LoopsDone /\ ~fail /\ symbols_[KiSystemCall64] # lstar.v
\* at least one catalog entry did not resolve
LookupFailureCase == LoopsDone /\ fail

\* C2 (as stated): when every entry resolves and KiSystemCall64 differs from
\* LSTAR, setup's outcome is distinct from the outcome of a lookup failure
\* (which is `false`).
C2_MismatchOutcomeIsDistinct ==
    MismatchCase => setupRet.v # FALSE

\* C2 (amended): when every entry resolves and KiSystemCall64 differs from
\* LSTAR, setup returns false and make_nt returns null, the very outcome of a
\* lookup failure; the mismatch differs by its diagnostic alone: "PDB
\* mismatch" is the one line logged, and it is logged in no other case.
C2_MismatchDiffersByDiagnosticOnly ==
    /\ MismatchCase => (setupRet.v = FALSE /\ log = <<"PDB mismatch">>)
    /\ LookupFailureCase =>
          /\ setupRet.v = FALSE
          /\ log # <<>>
          /\ \A k \in 1..Len(log) : log[k] # "PDB mismatch"
    /\ (pc = "setup_ret" /\ \E k \in 1..Len(log) : log[k] = "PDB mismatch") => MismatchCase
    /\ (pc = "no_handler") => nt = "null"

\* C2 witness: setup has returned on a mismatch
C2_Witness ==
    /\ MismatchCase
    /\ setupRet.v = FALSE
    /\ log = <<"PDB mismatch">>

\* C3: the catalog loops never stop early: all 23 entries are looked up in
\* catalog order however many failed before, each unresolved entry gets
\* exactly one diagnostic naming it, setup returns only after the last entry,
\* failing when at least one entry is unresolved, and the KiSystemCall64
\* comparison is reached only when none is.
C3_EveryEntryAttempted ==
    /\ (pc \in {"symbols", "members"}) =>
          /\ ~setupRet.some
          /\ log = DiagnosticsOf(trace)
          /\ fail = (log # <<>>)
    /\ LoopsDone =>
          /\ Len(trace) = Prerequisites + CatalogSize
          /\ \A k \in 1..CatalogSize :
                /\ IsLookup(trace[Prerequisites + k])
                /\ trace[Prerequisites + k].reg = CatalogOrder[k]
          /\ Len(DiagnosticsOf(trace)) = Unresolved
          /\ fail = (Unresolved > 0)
          /\ IF Unresolved > 0
             THEN setupRet.v = FALSE /\ log = DiagnosticsOf(trace)
             ELSE /\ setupRet.v = (lstar.v = symbols_[KiSystemCall64])
                  /\ log = IF setupRet.v THEN <<>> ELSE <<"PDB mismatch">>

\* C3 witness: the first and the last entry of the catalog failed to resolve,
\* and every entry between them was looked up
C3_Witness ==
    /\ LoopsDone
    /\ ~trace[Prerequisites + 1].ok
    /\ ~trace[Prerequisites + CatalogSize].ok
    /\ Len(log) = 2
    /\ setupRet.v = FALSE

(***************************************************************************)
(* The process walk.  When list_procs has returned, trace holds its reads   *)
(* in program order, visited the handles it gave on_process and answers     *)
(* what on_process said for each.                                           *)
(***************************************************************************)
WalkDone == pc = "returned" /\ call.op \in {"list_procs", "get_proc"}
\* the backend failed no read of mapped guest memory
BackendSound ==
    \A k \in 1..Len(trace) : trace[k].ok \/ ~(\E c \in PtrCells : c[1] = trace[k].at)
\* the reads of list links: of the head and of each node's forward link
LinkCells == {HeadAddr} \cup {LinkAddr(n) : n \in 1..Len(procs)}
LinkReadsOk == \A k \in 1..Len(trace) : (trace[k].at \in LinkCells) => trace[k].ok
NeverStopped == \A k \in 1..Len(answers) : answers[k] = "WALK_NEXT"
\* the handle list_procs builds for the node whose links are at address l
HandleAt(l) ==
    [id |-> Sub(l, members_[EPROCESS_ActiveProcessLinks]),
     dtb |-> read_ptr(Add(Add(Sub(l, members_[EPROCESS_ActiveProcessLinks]),
                              members_[EPROCESS_Pcb]),
                          members_[KPROCESS_DirectoryTableBase]), TRUE).v]
\* the backend failed the read of node n's DirectoryTableBase
DtbFailed(n) ==
    \E k \in 1..Len(trace) :
        /\ trace[k].at = KprocAddr(n) + GuestOffset[KPROCESS_DirectoryTableBase]
        /\ ~trace[k].ok
\* the nodes n..Len(procs) whose DirectoryTableBase was read (want = FALSE) or
\* was not (want = TRUE), in list order
RECURSIVE NodesFrom(_, _)
NodesFrom(n, want) ==
    IF n > Len(procs) THEN <<>>
    ELSE (IF DtbFailed(n) = want THEN <<n>> ELSE <<>>) \o NodesFrom(n + 1, want)

\* C4: on a well-formed circular list of k nodes, with every read succeeding
\* and a visitor that never asks to stop, list_procs calls the visitor once
\* per node, in forward-link order from the head's successor, with
\* {id = link address - offset(ActiveProcessLinks), dtb = the value read at
\* id + offset(Pcb) + offset(DirectoryTableBase)}, and returns true; on the
\* empty list it calls nothing and returns true.
C4_WalkVisitsEveryNodeInOrder ==
    (WalkDone /\ BackendSound /\ NeverStopped) =>
        /\ Len(visited) = Len(procs)
        /\ \A n \in 1..Len(procs) : visited[n] = HandleAt(LinkAddr(n))
        /\ \A n \in 1..Len(procs) : visited[n] = HandleOf(n)
        /\ ~ub
        /\ (call.op = "list_procs") => (ret.some /\ ret.v = TRUE)

\* C4 witness: a full walk of a list of MaxProcs nodes has returned
C4_Witness ==
    /\ WalkDone /\ BackendSound /\ NeverStopped
    /\ call.op = "list_procs"
    /\ Len(procs) = 2
    /\ visited = <<HandleOf(1), HandleOf(2)>>
    /\ ret.v = TRUE

\* C5: a node whose DirectoryTableBase cannot be read is left out: the
\* visitor is not called for it, one diagnostic names it, the walk goes on
\* with its successor and list_procs still returns true.  (Stated for walks
\* whose link reads all succeed and whose visitor never asks to stop.)
C5_UnreadableDtbSkipsTheNode ==
    (WalkDone /\ LinkReadsOk /\ NeverStopped /\ ~ub) =>
        /\ visited = [k \in 1..Len(NodesFrom(1, FALSE)) |-> HandleOf(NodesFrom(1, FALSE)[k])]
        /\ (call.op = "list_procs") =>
              /\ log = [k \in 1..Len(NodesFrom(1, TRUE)) |->
                          <<"unable to read KPROCESS.DirectoryTableBase",
                            ProcBase(NodesFrom(1, TRUE)[k])>>]
              /\ ret.some /\ ret.v = TRUE

\* C5 witness: the first node of two was skipped and the second visited
C5_Witness ==
    /\ WalkDone /\ LinkReadsOk /\ NeverStopped /\ ~ub
    /\ call.op = "list_procs"
    /\ Len(procs) = 2
    /\ DtbFailed(1)
    /\ visited = <<HandleOf(2)>>
    /\ Len(log) = 1
    /\ ret.v = TRUE

\* C6 (as stated): no operation uses the result of a failed read: a failed
\* guest read ends the operation (or the item) there; in particular
\* list_procs never dereferences a link whose read failed, and no operation
\* faults.
C6_NoFailedReadIsUsed ==
    /\ ~ub
    /\ pc # "fault"

(***************************************************************************)
(* The current process.  call.env holds what the backend answers for the    *)
(* two base registers and which process runs; trace holds the calls made:   *)
(* the register reads, then the memory reads.                               *)
(***************************************************************************)
CurrentDone == pc = "returned" /\ call.op = "get_current_proc"
MemReads == SelectSeq(trace, LAMBDA t : t.call = "read_ptr")
RegReads == SelectSeq(trace, LAMBDA t : t.call = "regs.read")
\* the base the first memory read started from
BaseUsed ==
    Sub(Sub(MemReads[1].at, members_[KPRCB_CurrentThread]), members_[KPCR_Prcb])

\* C7: get_current_proc returns a handle exactly when a segment base was
\* obtained and the three reads (current thread at base + Prcb +
\* CurrentThread, process at thread + Process, page-table root at kproc +
\* DirectoryTableBase) all succeeded; the handle is {kproc - offset(Pcb),
\* that root}; otherwise the result is absent, and no read follows a failed
\* one.
C7_CurrentProcAllOrNothing ==
    CurrentDone =>
        /\ ret.some
        /\ ret.v.some <=> (/\ Len(MemReads) = 3
                           /\ \A k \in 1..3 : MemReads[k].ok)
        /\ \A k \in 1..Len(MemReads) : (~MemReads[k].ok) => k = Len(MemReads)
        /\ (Len(MemReads) > 0) => (RegReads[Len(RegReads)].ok /\ Len(RegReads) \in 1..2)
        /\ (Len(MemReads) > 1) =>
               MemReads[2].at = Add(ThreadAddr(call.env.cur), members_[KTHREAD_Process])
        /\ (Len(MemReads) > 2) =>
               MemReads[3].at = Add(KprocAddr(call.env.cur), members_[KPROCESS_DirectoryTableBase])
        /\ ret.v.some =>
               /\ ret.v.v.id = Sub(KprocAddr(call.env.cur), members_[EPROCESS_Pcb])
               /\ ret.v.v.dtb = read_ptr(MemReads[3].at, TRUE).v
               /\ ret.v.v = (IF call.env.cur = 0 THEN [id |-> ProcBase(0), dtb |-> DtbOf(0)]
                             ELSE HandleOf(call.env.cur))
        /\ (~ret.v.some) => ret.v = None

\* C7 witness: the handle of the second listed process was returned
C7_Witness ==
    /\ CurrentDone
    /\ call.env.cur = 2
    /\ ret.v.some
    /\ ret.v.v = HandleOf(2)

\* C8: when both base registers are readable and one of them holds a value
\* with one of its top 12 bits set, the base get_current_proc starts from is
\* a register value with such a bit set; MSR_KERNEL_GS_BASE is read only after
\* MSR_GS_BASE was read and found to hold no such bit.
C8_KernelBasePreferred ==
    CurrentDone =>
        /\ (/\ call.env.gs.some /\ call.env.kgs.some
            /\ TopBitsSet(call.env.gs.v) \/ TopBitsSet(call.env.kgs.v)) =>
               /\ Len(MemReads) >= 1
               /\ TopBitsSet(BaseUsed)
               /\ BaseUsed \in {call.env.gs.v, call.env.kgs.v}
        /\ RegReads[1].reg = "MSR_GS_BASE"
        /\ (\E k \in 1..Len(RegReads) : RegReads[k].reg = "MSR_KERNEL_GS_BASE") <=>
               (call.env.gs.some /\ ~TopBitsSet(call.env.gs.v))
        /\ Len(RegReads) <= 2

\* C8 witness: MSR_GS_BASE held a user value and the base came from
\* MSR_KERNEL_GS_BASE
C8_Witness ==
    /\ CurrentDone
    /\ call.env.gs = Some(UserGsBase)
    /\ call.env.kgs = Some(KpcrAddr)
    /\ Len(RegReads) = 2
    /\ BaseUsed = KpcrAddr
    /\ ret.v.some

(***************************************************************************)
(* get_proc.  gots holds what get_proc_name gave for each visited handle.   *)
(***************************************************************************)
GetProcDone == pc = "returned" /\ call.op = "get_proc"
Matches(k) == gots[k].some /\ gots[k].v = call.name

\* C9: get_proc(name) returns the first visited handle whose name is present
\* and equal to name character for character, and visits nothing after it;
\* it returns absent exactly when no visited process has that name (an
\* unreadable name never matches).  Handles are visited in list order.
C9_FirstMatchWins ==
    GetProcDone =>
        /\ Len(gots) = Len(visited)
        /\ ret.some
        /\ ret.v.some <=> (\E k \in 1..Len(gots) : Matches(k))
        /\ ret.v.some =>
              /\ Matches(Len(gots))
              /\ \A k \in 1..(Len(gots) - 1) : ~Matches(k)
              /\ ret.v.v = visited[Len(visited)]
        /\ (BackendSound /\ ~ub) => \A k \in 1..Len(visited) : visited[k] = HandleOf(k)
        /\ (BackendSound /\ ~ub /\ ~ret.v.some) => Len(visited) = Len(procs)

\* C9 witness: two processes resolve to the name looked for; the first one
\* was returned and the second never visited
C9_Witness ==
    /\ GetProcDone
    /\ call.name = Smss
    /\ Len(procs) = 2
    /\ ret.v.some
    /\ ret.v.v = HandleOf(1)
    /\ Len(visited) = 1

(***************************************************************************)
(* get_proc_name alone.  trace holds its reads in program order.            *)
(***************************************************************************)
NameDone == pc = "returned" /\ call.op = "get_proc_name"
\* the listed process the handle is of
Listed == CHOOSE n \in 1..Len(procs) : call.proc = HandleOf(n)
\* the text of its inline name buffer
Inline == CStr(SubSeq(procs[Listed].img, 1, NameCap))
\* a step of the fallback chain failed: a read, the descriptor's sanity
\* check, or the decoding of the buffer
ChainFailed ==
    \/ \E k \in 2..Len(trace) : ~trace[k].ok
    \/ procs[Listed].length > procs[Listed].max_length
    \/ ~convert(SubSeq(procs[Listed].buf, 1, procs[Listed].length)).some

\* C10: once the inline ImageFileName read has succeeded, the result of
\* get_proc_name is present: a text shorter than 14 characters is returned
\* as it is and no other read is made; for a text of 14 characters the
\* fallback chain is entered (the SeAuditProcessCreationInfo.ImageFileName
\* pointer is read, then the descriptor at + offset(Name), then its buffer),
\* and when a step of the chain fails the 14-character text is returned.
C10_NameFallsBackToInlineText ==
    (NameDone /\ trace[1].ok) =>
        /\ ret.some /\ ret.v.some
        /\ IF Len(Inline) < NameCap
           THEN ret.v.v = Inline /\ Len(trace) = 1
           ELSE /\ Len(trace) >= 2
                /\ trace[2].at = Add(Add(call.proc.id,
                                         members_[EPROCESS_SeAuditProcessCreationInfo]),
                                     members_[SE_AUDIT_PROCESS_CREATION_INFO_ImageFileName])
                /\ (Len(trace) >= 3) =>
                      trace[3].at = Add(NameInfoAddr(Listed),
                                        members_[OBJECT_NAME_INFORMATION_Name])
                /\ (Len(trace) >= 4) => trace[4].at = NameBufAddr(Listed)
                /\ ChainFailed => ret.v.v = Inline
                /\ (~ChainFailed) => Len(trace) = 4

\* C10 witness: the inline text fills the buffer, the read of the string's
\* buffer failed, and the 14 characters were returned
C10_Witness ==
    /\ NameDone
    /\ Len(trace) = 4
    /\ trace[1].ok /\ trace[2].ok /\ trace[3].ok /\ ~trace[4].ok
    /\ ret.v = Some(Long14)

\* C11 (as stated): for a process whose inline name fills the 14-character
\* cap, get_proc_name returns the final component of the fallback's path or
\* the capped text, and whatever the descriptor and the path hold (a
\* zero-length string, a path with an empty final component) the name is
\* never empty and holds no NUL character.
C11_NameNeverEmptyNorNul ==
    (NameDone /\ trace[1].ok /\ Len(Inline) = NameCap) =>
        /\ ret.some /\ ret.v.some
        /\ ret.v.v # <<>>
        /\ \A k \in 1..Len(ret.v.v) : ret.v.v[k] # 0

(***************************************************************************)
(* The module walk.                                                         *)
(***************************************************************************)
ModsDone == pc = "returned" /\ call.op = "list_mods"
\* the process a handle names, if the guest has it
IndexOf(h) == CHOOSE n \in 1..(MaxProcs + 1) : HandleOf(n) = h
Known(h) == IndexOf(h) <= Len(procs)
IsFailedRead(c) == c.call \in {"read_ptr", "read"} /\ ~c.ok
IsSwitch(c) == c.call = "switch_process"
PebReadAt(c, h) == c.call = "read_ptr" /\ c.at = Add(h.id, members_[EPROCESS_Peb])
LdrReadOf(c) == c.call = "read_ptr" /\ c.at = Add(PebAddr, members_[PEB_Ldr])

\* C12: list_mods on a process whose Peb pointer reads as null returns true,
\* visits nothing, switches no address space and reads nothing more; it
\* returns false only when the Peb read or the PEB.Ldr read failed.
C12_NullPebIsSuccess ==
    ModsDone =>
        /\ (trace[1].ok /\ Known(call.proc) /\ procs[IndexOf(call.proc)].peb = 0) =>
               /\ ret = Some(TRUE)
               /\ visited = <<>>
               /\ Len(trace) = 1
               /\ PebReadAt(trace[1], call.proc)
               /\ ctx = <<>>
        /\ ret = Some(FALSE) =>
               \/ Len(trace) = 1 /\ PebReadAt(trace[1], call.proc) /\ ~trace[1].ok
               \/ Len(trace) = 3 /\ LdrReadOf(trace[3]) /\ ~trace[3].ok
C12_Witness ==
    /\ ModsDone
    /\ Known(call.proc) /\ procs[IndexOf(call.proc)].peb = 0
    /\ trace = <<Call("read_ptr", "", Add(call.proc.id, members_[EPROCESS_Peb]), TRUE)>>
    /\ ret = Some(TRUE)

\* C13: whenever list_mods, get_mod_name or get_mod_span has returned, by
\* whichever exit, the switch it acquired is released and the selected address
\* space is the one selected before the call; between calls no switch is active.
C13_SwitchReleasedOnEveryExit ==
    /\ (pc \in {"returned", "idle"}) => ctx = <<>>
    /\ (pc = "mods_visit" /\ inner.op = "done") => ctx = <<call.proc.dtb>>
C13_Witness ==
    /\ ModsDone
    /\ ret = Some(FALSE)
    /\ Len(trace) = 3 /\ IsSwitch(trace[2]) /\ IsFailedRead(trace[3])
    /\ ctx = <<>>

\* C14 (as stated): in every reachable state at most one address-space switch
\* is active, also while the visitor of list_mods asks for the name or the
\* span of the module it was handed.
C14_AtMostOneSwitch == Len(ctx) <= 1

\* the module a get_mod_name call was made for, when the guest has it
ModIndex == CHOOSE m \in 1..3 : ModEntry(m) = call.env
ModOfCall == ModsOf(IndexOf(call.proc))[ModIndex]
ModNameDone == pc = "returned" /\ call.op = "get_mod_name"

\* C15: read_unicode_string gives no string for a descriptor whose length
\* exceeds its max_length and then reads nothing of the buffer; it reads the
\* buffer, with exactly length bytes, only when length <= max_length.
C15_CorruptDescriptorIsNotRead ==
    (ModNameDone /\ Len(trace) >= 2 /\ trace[2].ok) =>
        IF ModOfCall.length > ModOfCall.max_length
        THEN ret = Some(None) /\ Len(trace) = 2
        ELSE /\ Len(trace) = 3
             /\ trace[3] = ReadCall(ModBufAddr(ModIndex), ModOfCall.length, trace[3].ok)
C15_Witness ==
    /\ ModNameDone
    /\ Len(trace) = 2 /\ trace[2].ok
    /\ ModOfCall.length > ModOfCall.max_length
    /\ ret = Some(None)
    /\ log = <<"corrupted UNICODE_STRING">>

\* C20: once PEB.Ldr is read, a failed read of the head's or of a node's
\* forward link ends the walk: the visitor is not called again and list_mods
\* returns true, as it does after a complete walk.
C20_FailedLinkEndsWalkWithTrue ==
    /\ (pc = "mods_visit") => link.some
    /\ (pc \in {"mods_walk", "mods_visit", "mods_end"}) =>
           \A k \in 4..(Len(trace) - 1) : ~IsFailedRead(trace[k])
    /\ (ModsDone /\ Len(trace) >= 4) =>
           /\ ret = Some(TRUE)
           /\ \A k \in 4..(Len(trace) - 1) : ~IsFailedRead(trace[k])
C20_Witness ==
    /\ ModsDone
    /\ ret = Some(TRUE)
    /\ Len(trace) >= 4 /\ IsFailedRead(trace[Len(trace)])
    /\ Len(visited) = 1
    /\ Len(ModsOf(IndexOf(call.proc))) = 2
    /\ answers = <<"WALK_NEXT">>

(***************************************************************************)
(* The kernel-image locator.                                                *)
(***************************************************************************)
ScanOver == pc = "scan_ret"
Scanning == pc \in {"scan", "scan_ret"}
EnclosingPage == align(lstar.v)
Aligned(a) == a % PAGE_SIZE = 0

\* C16: a span find_kernel returns starts at a page-aligned address strictly
\* below LSTAR and no higher than the page enclosing LSTAR; no page at or
\* after LSTAR is read or returned.
C16_SpanStartsBelowLstar ==
    /\ (Scanning /\ scan.n > 0) => scan.last < lstar.v /\ scan.first < lstar.v
    /\ (ScanOver /\ kernel.some) =>
           /\ Aligned(kernel.v.addr)
           /\ kernel.v.addr < lstar.v
           /\ kernel.v.addr <= EnclosingPage
           /\ kernel.v.addr = scan.last
C16_Witness ==
    /\ ScanOver
    /\ kernel.some
    /\ scan.n = 2
    /\ kernel.v.addr = EnclosingPage - PAGE_SIZE

\* the pages from p up to the enclosing one hold no header and are readable
ReadableAbove(p) ==
    \A q \in (p + 1)..(EnclosingPage \div PAGE_SIZE) : PageAt(kmem, q).t = "data"

\* C17 (as stated): for every entry address, page-aligned or not, find_kernel
\* first reads the page enclosing it and returns the highest page at or below
\* that one which holds a header, with its declared size, when the pages above
\* it up to the enclosing one are readable.
C17_EnclosingPageIsReadFirst ==
    ScanOver =>
        /\ scan.n >= 1
        /\ scan.first = EnclosingPage
        /\ \A p \in 0..(EnclosingPage \div PAGE_SIZE) :
               (PageAt(kmem, p).t = "pe" /\ ReadableAbove(p)) =>
                   kernel = Some([addr |-> p * PAGE_SIZE, size |-> PageAt(kmem, p).size])

\* C18: find_kernel returns not-found at the first page read that fails and
\* reads nothing after it, also when a lower page holds a header; setup then
\* fails having read no image, loaded no symbols and resolved no entry.
C18_FirstFailedReadEndsScan ==
    /\ (Scanning /\ scan.fails > 0) =>
           /\ ScanOver
           /\ scan.fails = 1
           /\ kernel = None
           /\ PageAt(kmem, scan.last \div PAGE_SIZE).t = "unmapped"
    /\ (pc \notin {"make_nt", "find_kernel", "scan", "scan_ret"} /\ scan.fails > 0) =>
           /\ pc \in {"setup_ret", "no_handler"}
           /\ setupRet = Some(FALSE)
           /\ nt # "handler"
           /\ Len(trace) = 2
           /\ trace[1].call = "regs.read"
           /\ trace[2].call = "find_kernel" /\ ~trace[2].ok
           /\ \A s \in DOMAIN symbols_ : symbols_[s] = Unset
           /\ \A m \in DOMAIN members_ : members_[m] = Unset
C18_Witness ==
    /\ pc = "setup_ret"
    /\ scan.fails = 1
    /\ scan.n = 2
    /\ setupRet = Some(FALSE)
    /\ log = <<"unable to find kernel">>

\* C19 (as stated): find_kernel reads at most floor(lstar / PAGE_SIZE) + 1
\* pages, each once and in strictly decreasing order: after page 0 the
\* subtraction wraps to a value not below LSTAR and the loop ends.
C19_ScanReadsEachPageOnce ==
    Scanning =>
        /\ scan.n <= lstar.v \div PAGE_SIZE + 1
        /\ scan.order

====
